---- MODULE Spec2Model ----
(***************************************************************************)
(* The OpenStack input plugin (plugins/inputs/openstack/openstack.go):     *)
(* one Gather cycle authenticates, fetches six resource collections and    *)
(* runs five aggregators that hand metric records to the accumulator.      *)
(***************************************************************************)
EXTENDS Integers, Sequences, FiniteSets, TLC, Bags

VARIABLES
    pc,                 \* the statement of Gather that runs next
    run,                \* how many times the aggregators were started on these inputs
    provider,           \* the ProviderClient of the cycle, or Nil
    projectMap,         \* results of the six fetches (Nil or Some(value))
    hypervisorList,
    flavorMap,
    serverList,
    volumeList,
    storagePoolList,
    err,                \* Gather's err variable
    fault,              \* per resource kind, the step of its fetcher that failed
    log,                \* lines written with log.Println
    ret,                \* what Gather returned
    acc,                \* the records handed to acc.AddFields, in call order
    prevAcc,            \* the records of the previous run over the same inputs
    totals,             \* locals of gatherHypervisorStatistics
    overallStateFields, \* locals of gatherServerStatistics
    projectStateFields,
    overallFields,
    projectFields,
    overallCount,       \* locals of gatherVolumeStatistics
    overallSizes,
    projectCount,
    projectSizes

fetchVars == <<projectMap, hypervisorList, flavorMap, serverList, volumeList, storagePoolList>>
hypervisorLocals == <<totals>>
serverLocals == <<overallStateFields, projectStateFields, overallFields, projectFields>>
volumeLocals == <<overallCount, overallSizes, projectCount, projectSizes>>
vars == <<pc, run, provider, fetchVars, err, fault, log, ret, acc, prevAcc,
          hypervisorLocals, serverLocals, volumeLocals>>

----------------------------------------------------------------------------
(* Go values *)

\* a nil map, slice or pointer, and a non-nil one
Nil == [isNil |-> TRUE]
Some(v) == [isNil |-> FALSE, v |-> v]

\* reading a nil map or ranging over a nil slice behaves as the empty one
MapOf(m) == IF m.isNil THEN [k \in {} |-> 0] ELSE m.v
ListOf(l) == IF l.isNil THEN <<>> ELSE l.v

\* IntegerFieldMap{}, KeyedIntegerFieldMap{}, FieldMap{}, TagMap{}
EmptyMap == [k \in {} |-> 0]

\* m[k] of an IntegerFieldMap: the zero value when k is missing
Get(m, k) == IF k \in DOMAIN m THEN m[k] ELSE 0

\* m[k] += v
AddTo(m, k, v) == [x \in DOMAIN m \cup {k} |-> IF x = k THEN Get(m, k) + v ELSE m[x]]

\* m[k] = v
Put(m, k, v) == [x \in DOMAIN m \cup {k} |-> IF x = k THEN v ELSE m[x]]

\* IntegerFieldMap.encode: a FieldMap with the same keys and values
encode(in) == [k \in DOMAIN in |-> in[k]]

\* the orders in which a range over a map with key set S may visit its keys
RangeOrders(S) ==
    {o \in [1..Cardinality(S) -> S] : \A i, j \in 1..Cardinality(S) : i # j => o[i] # o[j]}

\* the records of a sequence of AddFields calls, with how often each occurs
BagOf(seq) ==
    [r \in {seq[i] : i \in DOMAIN seq} |-> Cardinality({i \in DOMAIN seq : seq[i] = r})]

\* one acc.AddFields(name, fields, tags) call
Metric(name, fields, tags) == [name |-> name, fields |-> fields, tags |-> tags]

\* the status kept as reported
ToLowerOmitted(s) == s

\* strings.ToLower on the server statuses the model draws from
ToLower(s) ==
    CASE s = "ACTIVE" -> "active"
      [] s = "Active" -> "active"
      [] s = "ERROR"  -> "error"
      [] OTHER        -> s

----------------------------------------------------------------------------
(* The resources the cloud may report *)

ZeroProject == [ID |-> "", Name |-> ""]
ProjectDev1 == [ID |-> "p1", Name |-> "dev"]
ProjectDev2 == [ID |-> "p2", Name |-> "dev"]
ProjectOps  == [ID |-> "p3", Name |-> "ops"]

ZeroFlavor == [ID |-> "", VCPUs |-> 0, RAM |-> 0, Disk |-> 0]
FlavorSmall == [ID |-> "f1", VCPUs |-> 2, RAM |-> 4096, Disk |-> 20]
FlavorTiny  == [ID |-> "f2", VCPUs |-> 1, RAM |-> 512, Disk |-> 1]

HypervisorA == [HypervisorHostname |-> "hvA", MemoryMB |-> 8, MemoryMBUsed |-> 3,
                RunningVMs |-> 2, VCPUs |-> 4, VCPUsUsed |-> 1]
HypervisorB == [HypervisorHostname |-> "hvB", MemoryMB |-> 16, MemoryMBUsed |-> 5,
                RunningVMs |-> 0, VCPUs |-> 8, VCPUsUsed |-> 6]
HypervisorC == [HypervisorHostname |-> "hvC", MemoryMB |-> 1, MemoryMBUsed |-> 1,
                RunningVMs |-> 7, VCPUs |-> 2, VCPUsUsed |-> 0]

\* servers: Flavor is the generic bag of the API, with or without an "id" entry
ServerA == [Status |-> "ACTIVE", Flavor |-> [id |-> "f1"], TenantID |-> "p1"]
ServerB == [Status |-> "active", Flavor |-> [id |-> "f2"], TenantID |-> "p2"]
ServerC == [Status |-> "ERROR",  Flavor |-> [id |-> "f9"], TenantID |-> "p9"]
ServerD == [Status |-> "Active", Flavor |-> EmptyMap,      TenantID |-> "p3"]
ServerE == [Status |-> "error",  Flavor |-> [id |-> "f1"], TenantID |-> "p3"]

VolumeA == [TenantID |-> "p1", VolumeType |-> "",        Size |-> 10]
VolumeB == [TenantID |-> "p1", VolumeType |-> "ssd",     Size |-> 5]
VolumeC == [TenantID |-> "p9", VolumeType |-> "default", Size |-> 3]
VolumeD == [TenantID |-> "p3", VolumeType |-> "",        Size |-> 7]

PoolA == [Capabilities |-> [VolumeBackendName |-> "flash", TotalCapacityGB |-> 100, FreeCapacityGB |-> 40]]
PoolB == [Capabilities |-> [VolumeBackendName |-> "disk",  TotalCapacityGB |-> 500, FreeCapacityGB |-> 0]]

\* what the list calls of one cycle may decode to
ProjectLists    == {<<>>, <<ProjectDev1, ProjectDev2, ProjectOps>>}
FlavorLists     == {<<>>, <<FlavorSmall, FlavorTiny>>}
HypervisorLists == {<<>>, <<HypervisorA, HypervisorB>>}
ServerLists     == {<<>>, <<ServerA, ServerB, ServerC>>, <<ServerA, ServerD>>}
VolumeLists     == {<<>>, <<VolumeA, VolumeB>>}
StoragePoolLists == {<<>>, <<PoolA, PoolB>>}

\* the step of a fetcher that fails, if any
FetchSteps == {"none", "client", "list", "extract"}
Kinds == {"projects", "hypervisors", "flavors", "servers", "volumes", "storage pools"}
NoError == "nil"

----------------------------------------------------------------------------
(* The six fetchers: what each returns when `step` of it fails ("none": no *)
(* step fails) and the list call decodes to the given list                 *)

RECURSIVE ToProjectMap(_)
ToProjectMap(projectList) ==
    IF projectList = <<>> THEN EmptyMap
    ELSE LET n == Len(projectList)
         IN  Put(ToProjectMap(SubSeq(projectList, 1, n - 1)), projectList[n].ID, projectList[n])

RECURSIVE ToFlavorMap(_)
ToFlavorMap(flavorList) ==
    IF flavorList = <<>> THEN EmptyMap
    ELSE LET n == Len(flavorList)
         IN  Put(ToFlavorMap(SubSeq(flavorList, 1, n - 1)), flavorList[n].ID, flavorList[n])

getProjectMap(step, projectList) ==
    CASE step = "client"  -> [val |-> Nil, err |-> "unable to create V3 identity client"]
      [] step = "list"    -> [val |-> Nil, err |-> "unable to list projects"]
      [] step = "extract" -> [val |-> Nil, err |-> "unable to extract projects"]
      [] OTHER            -> [val |-> Some(ToProjectMap(projectList)), err |-> NoError]

getHypervisorList(step, list) ==
    CASE step = "client"  -> [val |-> Nil, err |-> "unable to create V2 compute client"]
      [] step = "list"    -> [val |-> Nil, err |-> "unable to list hypervisors"]
      [] step = "extract" -> [val |-> Nil, err |-> "unable to extract hypervisors"]
      [] OTHER            -> [val |-> Some(list), err |-> NoError]

getFlavorMap(step, flavorList) ==
    CASE step = "client"  -> [val |-> Nil, err |-> "unable to create V2 compute client"]
      [] step = "list"    -> [val |-> Nil, err |-> "unable to list flavors"]
      [] step = "extract" -> [val |-> Nil, err |-> "unable to extract flavors"]
      [] OTHER            -> [val |-> Some(ToFlavorMap(flavorList)), err |-> NoError]

getServerList(step, list) ==
    CASE step = "client"  -> [val |-> Nil, err |-> "unable to create V2 compute client"]
      [] step = "list"    -> [val |-> Nil, err |-> "unable to list servers"]
      [] step = "extract" -> [val |-> Nil, err |-> "unable to extract servers"]
      [] OTHER            -> [val |-> Some(list), err |-> NoError]

\* the error of volumes.ExtractVolumesInto is dropped: s is returned as the
\* decoder left it, with a nil error
getVolumeList(step, s) ==
    CASE step = "client"  -> [val |-> Nil, err |-> "unable to create V2 volume client"]
      [] step = "list"    -> [val |-> Nil, err |-> "unable to list volumes"]
      [] OTHER            -> [val |-> Some(s), err |-> NoError]

getStoragePools(step, list) ==
    CASE step = "client"  -> [val |-> Nil, err |-> "unable to create V2 volume client"]
      [] step = "list"    -> [val |-> Nil, err |-> "unable to list storage pools"]
      [] step = "extract" -> [val |-> Nil, err |-> "unable to extract storage pools"]
      [] OTHER            -> [val |-> Some(list), err |-> NoError]

----------------------------------------------------------------------------
(* Gather, up to the end of the fetches *)

Init ==
    /\ pc = "authenticate"
    /\ run = 1
    /\ provider = Nil
    /\ projectMap = Nil /\ hypervisorList = Nil /\ flavorMap = Nil
    /\ serverList = Nil /\ volumeList = Nil /\ storagePoolList = Nil
    /\ err = NoError
    /\ fault = [k \in Kinds \cup {"auth"} |-> "none"]
    /\ log = <<>>
    /\ ret = "running"
    /\ acc = <<>>
    /\ prevAcc = EmptyMap
    /\ totals = EmptyMap
    /\ overallStateFields = EmptyMap /\ projectStateFields = EmptyMap
    /\ overallFields = EmptyMap /\ projectFields = EmptyMap
    /\ overallCount = EmptyMap /\ overallSizes = EmptyMap
    /\ projectCount = EmptyMap /\ projectSizes = EmptyMap

aggregatorVars == <<run, acc, prevAcc, hypervisorLocals, serverLocals, volumeLocals>>

\* the error of AuthenticatedClient is not checked
AuthenticationErrorIgnored ==
    /\ ret' = ret
    /\ pc' = "setHTTPClient"
    /\ provider' = Nil

\* the early return on an authentication error
AuthenticationFailed ==
    /\ ret' = "Unable to authenticate OpenStack user"
    /\ pc' = "returned"
    /\ provider' = Nil

\* openstack.AuthenticatedClient and the check of its error
Authenticate ==
    /\ pc = "authenticate"
    /\ \/ /\ fault' = [fault EXCEPT !["auth"] = "auth"]
          /\ err' = "authentication refused"
          /\ AuthenticationFailed
       \/ /\ provider' = Some([HTTPClient |-> [InsecureSkipVerify |-> FALSE]])
          /\ pc' = "setHTTPClient"
          /\ UNCHANGED <<err, fault, ret>>
    /\ UNCHANGED <<fetchVars, log, aggregatorVars>>

\* the tls.Config of the transport Gather builds
TLSClientConfig == [InsecureSkipVerify |-> TRUE]

\* provider.HTTPClient = http.Client{Transport: tr}
SetHTTPClient ==
    /\ pc = "setHTTPClient"
    /\ provider' = Some([HTTPClient |-> TLSClientConfig])
    /\ pc' = "getProjectMap"
    /\ UNCHANGED <<fetchVars, err, fault, log, ret, aggregatorVars>>

Warning(what, e) == "W! failed to get " \o what \o ": " \o e

\* if err != nil { log.Println(...) }
Logged(what, e) == IF e # NoError THEN Append(log, Warning(what, e)) ELSE log

GetProjects ==
    /\ pc = "getProjectMap"
    /\ \E step \in FetchSteps, projectList \in ProjectLists :
         LET r == getProjectMap(step, projectList)
         IN  /\ projectMap' = r.val
             /\ err' = r.err
             /\ log' = Logged("projects", r.err)
             /\ fault' = [fault EXCEPT !["projects"] = step]
    /\ pc' = "getHypervisorList"
    /\ UNCHANGED <<provider, hypervisorList, flavorMap, serverList, volumeList,
                   storagePoolList, ret, aggregatorVars>>

GetHypervisors ==
    /\ pc = "getHypervisorList"
    /\ \E step \in FetchSteps, list \in HypervisorLists :
         LET r == getHypervisorList(step, list)
         IN  /\ hypervisorList' = r.val
             /\ err' = r.err
             /\ log' = Logged("hypervisors", r.err)
             /\ fault' = [fault EXCEPT !["hypervisors"] = step]
    /\ pc' = "getFlavorMap"
    /\ UNCHANGED <<provider, projectMap, flavorMap, serverList, volumeList,
                   storagePoolList, ret, aggregatorVars>>

GetFlavors ==
    /\ pc = "getFlavorMap"
    /\ \E step \in FetchSteps, flavorList \in FlavorLists :
         LET r == getFlavorMap(step, flavorList)
         IN  /\ flavorMap' = r.val
             /\ err' = r.err
             /\ log' = Logged("flavors", r.err)
             /\ fault' = [fault EXCEPT !["flavors"] = step]
    /\ pc' = "getServerList"
    /\ UNCHANGED <<provider, projectMap, hypervisorList, serverList, volumeList,
                   storagePoolList, ret, aggregatorVars>>

GetServers ==
    /\ pc = "getServerList"
    /\ \E step \in FetchSteps, list \in ServerLists :
         LET r == getServerList(step, list)
         IN  /\ serverList' = r.val
             /\ err' = r.err
             /\ log' = Logged("servers", r.err)
             /\ fault' = [fault EXCEPT !["servers"] = step]
    /\ pc' = "getVolumeList"
    /\ UNCHANGED <<provider, projectMap, hypervisorList, flavorMap, volumeList,
                   storagePoolList, ret, aggregatorVars>>

GetVolumes ==
    /\ pc = "getVolumeList"
    /\ \E step \in FetchSteps, s \in VolumeLists :
         LET r == getVolumeList(step, s)
         IN  /\ volumeList' = r.val
             /\ err' = r.err
             /\ log' = Logged("volumes", r.err)
             /\ fault' = [fault EXCEPT !["volumes"] = step]
    /\ pc' = "getStoragePools"
    /\ UNCHANGED <<provider, projectMap, hypervisorList, flavorMap, serverList,
                   storagePoolList, ret, aggregatorVars>>

GetStoragePools ==
    /\ pc = "getStoragePools"
    /\ \E step \in FetchSteps, list \in StoragePoolLists :
         LET r == getStoragePools(step, list)
         IN  /\ storagePoolList' = r.val
             /\ err' = r.err
             /\ log' = Logged("storage pools", r.err)
             /\ fault' = [fault EXCEPT !["storage pools"] = step]
    /\ pc' = "gatherIdentityStatistics"
    /\ UNCHANGED <<provider, projectMap, hypervisorList, flavorMap, serverList,
                   volumeList, ret, aggregatorVars>>

----------------------------------------------------------------------------
(* The five aggregators *)

\* m[k] of a ProjectMap or a FlavorMap: the zero value when k is missing
Lookup(m, k, zero) == IF k \in DOMAIN m THEN m[k] ELSE zero

gatherIdentityStatistics ==
    /\ pc = "gatherIdentityStatistics"
    /\ acc' = IF projectMap.isNil THEN acc
              ELSE IF Cardinality(DOMAIN projectMap.v) # 0
                   THEN Append(acc, Metric("openstack_identity_total",
                                           [projects |-> Cardinality(DOMAIN projectMap.v)],
                                           EmptyMap))
                   ELSE acc
    /\ pc' = "gatherHypervisorStatistics"
    /\ UNCHANGED <<run, provider, fetchVars, err, fault, log, ret, prevAcc,
                   hypervisorLocals, serverLocals, volumeLocals>>

\* totals kept from the call before
StaleHypervisorTotals == totals

\* totals := IntegerFieldMap{}
NewHypervisorTotals == EmptyMap

\* the used vcpus summed from the wrong field
AccumulateHypervisorMixedUp(t, hypervisor) ==
    AddTo(AddTo(AddTo(AddTo(AddTo(t,
        "memory_mb", hypervisor.MemoryMB),
        "memory_mb_used", hypervisor.MemoryMBUsed),
        "running_vms", hypervisor.RunningVMs),
        "vcpus", hypervisor.VCPUs),
        "vcpus_used", hypervisor.VCPUs)

\* the five += of the loop body
AccumulateHypervisor(t, hypervisor) ==
    AddTo(AddTo(AddTo(AddTo(AddTo(t,
        "memory_mb", hypervisor.MemoryMB),
        "memory_mb_used", hypervisor.MemoryMBUsed),
        "running_vms", hypervisor.RunningVMs),
        "vcpus", hypervisor.VCPUs),
        "vcpus_used", hypervisor.VCPUsUsed)

\* the record emitted for one hypervisor
HypervisorMetric(hypervisor) ==
    Metric("openstack_hypervisor",
           [memory_mb      |-> hypervisor.MemoryMB,
            memory_mb_used |-> hypervisor.MemoryMBUsed,
            running_vms    |-> hypervisor.RunningVMs,
            vcpus          |-> hypervisor.VCPUs,
            vcpus_used     |-> hypervisor.VCPUsUsed],
           [hypervisor |-> hypervisor.HypervisorHostname])

\* the loop over hypervisorList, from totals t0: the totals and the records emitted
RECURSIVE HypervisorLoop(_, _)
HypervisorLoop(list, t0) ==
    IF list = <<>> THEN [totals |-> t0, emitted |-> <<>>]
    ELSE LET n == Len(list)
             before == HypervisorLoop(SubSeq(list, 1, n - 1), t0)
         IN  [totals  |-> AccumulateHypervisor(before.totals, list[n]),
              emitted |-> Append(before.emitted, HypervisorMetric(list[n]))]

gatherHypervisorStatistics ==
    /\ pc = "gatherHypervisorStatistics"
    /\ IF hypervisorList.isNil
       THEN UNCHANGED <<acc, totals>>
       ELSE LET r == HypervisorLoop(hypervisorList.v, NewHypervisorTotals)
            IN  /\ totals' = r.totals
                /\ acc' = acc \o r.emitted \o
                          (IF Cardinality(DOMAIN r.totals) # 0
                           THEN <<Metric("openstack_hypervisor_total", encode(r.totals), EmptyMap)>>
                           ELSE <<>>)
    /\ pc' = "gatherServerStatistics"
    /\ UNCHANGED <<run, provider, fetchVars, err, fault, log, ret, prevAcc,
                   serverLocals, volumeLocals>>

\* the two records of one project bucket, for each bucket in the order visited
PerProject(order, nameA, mapA, nameB, mapB) ==
    [i \in 1..(2 * Len(order)) |->
        LET project == order[(i + 1) \div 2]
        IN  IF i % 2 = 1
            THEN Metric(nameA, encode(mapA[project]), [project |-> project])
            ELSE Metric(nameB, encode(mapB[project]), [project |-> project])]

\* only the server list is checked
OnlyServerListChecked == serverList.isNil

\* if projectMap == nil || flavorMap == nil || serverList == nil { return }
ServerInputsMissing == projectMap.isNil \/ flavorMap.isNil \/ serverList.isNil

\* server.Flavor["id"].(string) succeeds
FlavorIdIsString(server) == "id" \in DOMAIN server.Flavor

\* the four maps of gatherServerStatistics, freshly made
NewServerLocals ==
    [panicked |-> FALSE,
     overallStateFields |-> EmptyMap, projectStateFields |-> EmptyMap,
     overallFields |-> EmptyMap, projectFields |-> EmptyMap]

\* one pass of the loop body over `server`; the type assertion panics first
ServerBody(st, server, pm, fm) ==
    IF st.panicked THEN st
    ELSE IF ~FlavorIdIsString(server) THEN [st EXCEPT !.panicked = TRUE]
    ELSE
      LET status  == ToLower(server.Status)
          flavor  == Lookup(fm, server.Flavor["id"], ZeroFlavor)
          vcpus   == flavor.VCPUs
          ram     == flavor.RAM
          disk    == flavor.Disk
          project == Lookup(pm, server.TenantID, ZeroProject).Name
          known   == project \in DOMAIN st.projectStateFields
          psf     == IF known THEN st.projectStateFields[project] ELSE EmptyMap
          pf      == IF known THEN st.projectFields[project] ELSE EmptyMap
      IN  [panicked |-> FALSE,
           overallStateFields |-> AddTo(st.overallStateFields, status, 1),
           overallFields |->
               AddTo(AddTo(AddTo(st.overallFields, "vcpus", vcpus), "ram", ram), "disk", disk),
           projectStateFields |->
               Put(st.projectStateFields, project, AddTo(psf, status, 1)),
           projectFields |->
               Put(st.projectFields, project,
                   AddTo(AddTo(AddTo(pf, "vcpus", vcpus), "ram", ram), "disk", disk))]

RECURSIVE ServerLoop(_, _, _, _)
ServerLoop(list, st0, pm, fm) ==
    IF list = <<>> THEN st0
    ELSE LET n == Len(list)
         IN  ServerBody(ServerLoop(SubSeq(list, 1, n - 1), st0, pm, fm), list[n], pm, fm)

gatherServerStatistics ==
    /\ pc = "gatherServerStatistics"
    /\ IF ServerInputsMissing
       THEN /\ pc' = "gatherVolumeStatistics"
            /\ UNCHANGED <<acc, ret, serverLocals>>
       ELSE LET st == ServerLoop(ListOf(serverList), NewServerLocals,
                                 MapOf(projectMap), MapOf(flavorMap))
            IN  /\ overallStateFields' = st.overallStateFields
                /\ projectStateFields' = st.projectStateFields
                /\ overallFields' = st.overallFields
                /\ projectFields' = st.projectFields
                /\ IF st.panicked
                   THEN /\ pc' = "panicked"
                        /\ ret' = "panic: interface conversion: interface {} is nil, not string"
                        /\ acc' = acc
                   ELSE /\ pc' = "gatherVolumeStatistics"
                        /\ ret' = ret
                        /\ \E order \in RangeOrders(DOMAIN st.projectStateFields) :
                             acc' = acc \o
                                 (IF Cardinality(DOMAIN st.overallStateFields) # 0
                                  THEN <<Metric("openstack_server_state_total",
                                                encode(st.overallStateFields), EmptyMap),
                                         Metric("openstack_server_stats_total",
                                                encode(st.overallFields), EmptyMap)>>
                                  ELSE <<>>) \o
                                 PerProject(order,
                                            "openstack_server_state", st.projectStateFields,
                                            "openstack_server_stats", st.projectFields)
    /\ UNCHANGED <<run, provider, fetchVars, err, fault, log, prevAcc,
                   hypervisorLocals, volumeLocals>>

\* if projectMap == nil || volumeList == nil { return }
VolumeInputsMissing == projectMap.isNil \/ volumeList.isNil

\* the type used as reported
VolumeTypeAsReported(volume) == volume.VolumeType

\* the field key of a volume: its type, or "default" for the empty type
VolumeTypeKey(volume) == IF volume.VolumeType # "" THEN volume.VolumeType ELSE "default"

\* the four maps of gatherVolumeStatistics, freshly made
NewVolumeLocals ==
    [overallCount |-> EmptyMap, overallSizes |-> EmptyMap,
     projectCount |-> EmptyMap, projectSizes |-> EmptyMap]

VolumeBody(st, volume, pm) ==
    LET volumeType == VolumeTypeKey(volume)
        size    == volume.Size
        project == Lookup(pm, volume.TenantID, ZeroProject).Name
        known   == project \in DOMAIN st.projectCount
        pcnt    == IF known THEN st.projectCount[project] ELSE EmptyMap
        psz     == IF known THEN st.projectSizes[project] ELSE EmptyMap
    IN  [overallCount |-> AddTo(st.overallCount, volumeType, 1),
         overallSizes |-> AddTo(st.overallSizes, volumeType, size),
         projectCount |-> Put(st.projectCount, project, AddTo(pcnt, volumeType, 1)),
         projectSizes |-> Put(st.projectSizes, project, AddTo(psz, volumeType, size))]

RECURSIVE VolumeLoop(_, _, _)
VolumeLoop(list, st0, pm) ==
    IF list = <<>> THEN st0
    ELSE LET n == Len(list)
         IN  VolumeBody(VolumeLoop(SubSeq(list, 1, n - 1), st0, pm), list[n], pm)

gatherVolumeStatistics ==
    /\ pc = "gatherVolumeStatistics"
    /\ IF VolumeInputsMissing
       THEN UNCHANGED <<acc, volumeLocals>>
       ELSE LET st == VolumeLoop(ListOf(volumeList), NewVolumeLocals, MapOf(projectMap))
            IN  /\ overallCount' = st.overallCount
                /\ overallSizes' = st.overallSizes
                /\ projectCount' = st.projectCount
                /\ projectSizes' = st.projectSizes
                /\ \E order \in RangeOrders(DOMAIN st.projectCount) :
                     acc' = acc \o
                         (IF Cardinality(DOMAIN st.overallCount) # 0
                          THEN <<Metric("openstack_volume_count_total",
                                        encode(st.overallCount), EmptyMap),
                                 Metric("openstack_volume_size_total",
                                        encode(st.overallSizes), EmptyMap)>>
                          ELSE <<>>) \o
                         PerProject(order,
                                    "openstack_volume_count", st.projectCount,
                                    "openstack_volume_size", st.projectSizes)
    /\ pc' = "gatherStoragePoolStatistics"
    /\ UNCHANGED <<run, provider, fetchVars, err, fault, log, ret, prevAcc,
                   hypervisorLocals, serverLocals>>

StoragePoolMetric(storagePool) ==
    Metric("openstack_storage_pool",
           [total_capacity_gb |-> storagePool.Capabilities.TotalCapacityGB,
            free_capacity_gb  |-> storagePool.Capabilities.FreeCapacityGB],
           [name |-> storagePool.Capabilities.VolumeBackendName])

\* the last aggregator, and Gather's return nil
gatherStoragePoolStatistics ==
    /\ pc = "gatherStoragePoolStatistics"
    /\ acc' = IF storagePoolList.isNil THEN acc
              ELSE acc \o [i \in 1..Len(storagePoolList.v) |->
                              StoragePoolMetric(storagePoolList.v[i])]
    /\ pc' = "returned"
    /\ ret' = NoError
    /\ UNCHANGED <<run, provider, fetchVars, err, fault, log, prevAcc,
                   hypervisorLocals, serverLocals, volumeLocals>>

----------------------------------------------------------------------------
(* One Gather cycle *)

Next ==
    \/ Authenticate
    \/ SetHTTPClient
    \/ GetProjects
    \/ GetHypervisors
    \/ GetFlavors
    \/ GetServers
    \/ GetVolumes
    \/ GetStoragePools
    \/ gatherIdentityStatistics
    \/ gatherHypervisorStatistics
    \/ gatherServerStatistics
    \/ gatherVolumeStatistics
    \/ gatherStoragePoolStatistics

Spec == Init /\ [][Next]_vars

----------------------------------------------------------------------------
(* The aggregators on their own: Gather has fetched, and the five          *)
(* aggregators run, then run once more over the same collections           *)

MaxHypervisors == 3
MaxServers == 3
MaxVolumes == 3

BoundedSeq(S, n) == UNION {[1..k -> S] : k \in 0..n}

HypervisorSet == {HypervisorA, HypervisorB, HypervisorC}
ServerSet == {ServerA, ServerB, ServerC, ServerD, ServerE}
VolumeSet == {VolumeA, VolumeB, VolumeC, VolumeD}

Optional(S) == {Nil} \cup {Some(x) : x \in S}

\* the state Gather is in after its six fetches returned these collections
\* (an absent one because its list call failed)
AfterFetches(pm, hl, fm, sl, vl, sp) ==
    /\ pc = "gatherIdentityStatistics"
    /\ run = 1
    /\ provider = Some([HTTPClient |-> TLSClientConfig])
    /\ projectMap = pm /\ hypervisorList = hl /\ flavorMap = fm
    /\ serverList = sl /\ volumeList = vl /\ storagePoolList = sp
    /\ err = getStoragePools(IF sp.isNil THEN "list" ELSE "none", <<>>).err
    /\ fault = [k \in Kinds \cup {"auth"} |->
                  IF \/ k = "projects" /\ pm.isNil
                     \/ k = "hypervisors" /\ hl.isNil
                     \/ k = "flavors" /\ fm.isNil
                     \/ k = "servers" /\ sl.isNil
                     \/ k = "volumes" /\ vl.isNil
                     \/ k = "storage pools" /\ sp.isNil
                  THEN "list" ELSE "none"]
    /\ log = (IF pm.isNil THEN <<Warning("projects", "unable to list projects")>> ELSE <<>>)
          \o (IF hl.isNil THEN <<Warning("hypervisors", "unable to list hypervisors")>> ELSE <<>>)
          \o (IF fm.isNil THEN <<Warning("flavors", "unable to list flavors")>> ELSE <<>>)
          \o (IF sl.isNil THEN <<Warning("servers", "unable to list servers")>> ELSE <<>>)
          \o (IF vl.isNil THEN <<Warning("volumes", "unable to list volumes")>> ELSE <<>>)
          \o (IF sp.isNil THEN <<Warning("storage pools", "unable to list storage pools")>> ELSE <<>>)
    /\ ret = "running"
    /\ acc = <<>>
    /\ prevAcc = EmptyMap
    /\ totals = EmptyMap
    /\ overallStateFields = EmptyMap /\ projectStateFields = EmptyMap
    /\ overallFields = EmptyMap /\ projectFields = EmptyMap
    /\ overallCount = EmptyMap /\ overallSizes = EmptyMap
    /\ projectCount = EmptyMap /\ projectSizes = EmptyMap

ProjectMaps == Optional({ToProjectMap(l) : l \in ProjectLists})
FlavorMaps == Optional({ToFlavorMap(l) : l \in FlavorLists})

InitAggregate ==
    \/ \E hl \in Optional(BoundedSeq(HypervisorSet, MaxHypervisors)) :
         AfterFetches(Nil, hl, Nil, Nil, Nil, Nil)
    \/ \E pm \in ProjectMaps, fm \in FlavorMaps,
          sl \in Optional(BoundedSeq(ServerSet, MaxServers)) :
         AfterFetches(pm, Nil, fm, sl, Nil, Nil)
    \/ \E pm \in ProjectMaps, vl \in Optional(BoundedSeq(VolumeSet, MaxVolumes)) :
         AfterFetches(pm, Nil, Nil, Nil, vl, Nil)
    \/ \E pm \in ProjectMaps, hl \in Optional(HypervisorLists), fm \in FlavorMaps,
          sl \in Optional(ServerLists), vl \in Optional(VolumeLists),
          sp \in Optional(StoragePoolLists) :
         AfterFetches(pm, hl, fm, sl, vl, sp)

\* the aggregators are started once more on the collections of this cycle
Rerun ==
    /\ pc \in {"returned", "panicked"}
    /\ run = 1
    /\ run' = 2
    /\ prevAcc' = BagOf(acc)
    /\ acc' = <<>>
    /\ ret' = "running"
    /\ pc' = "gatherIdentityStatistics"
    /\ UNCHANGED <<provider, fetchVars, err, fault, log,
                   hypervisorLocals, serverLocals, volumeLocals>>

NextAggregate ==
    \/ gatherIdentityStatistics
    \/ gatherHypervisorStatistics
    \/ gatherServerStatistics
    \/ gatherVolumeStatistics
    \/ gatherStoragePoolStatistics
    \/ Rerun

SpecAggregate == InitAggregate /\ [][NextAggregate]_vars

----------------------------------------------------------------------------
(* Reading the accumulator *)

IdentitySeries == {"openstack_identity_total"}
HypervisorSeries == {"openstack_hypervisor", "openstack_hypervisor_total"}
ServerSeries == {"openstack_server_state_total", "openstack_server_stats_total",
                 "openstack_server_state", "openstack_server_stats"}
VolumeSeries == {"openstack_volume_count_total", "openstack_volume_size_total",
                 "openstack_volume_count", "openstack_volume_size"}
StoragePoolSeries == {"openstack_storage_pool"}

\* the calls of the accumulator that name the series
Named(name) == {i \in DOMAIN acc : acc[i].name = name}
Emitted(series) == \E i \in DOMAIN acc : acc[i].name \in series

RECURSIVE SumSeq(_)
SumSeq(s) == IF Len(s) = 0 THEN 0 ELSE s[Len(s)] + SumSeq(SubSeq(s, 1, Len(s) - 1))

RECURSIVE SumMap(_)
SumMap(m) ==
    IF DOMAIN m = {} THEN 0
    ELSE LET k == CHOOSE x \in DOMAIN m : TRUE
         IN  m[k] + SumMap([x \in DOMAIN m \ {k} |-> m[x]])

\* the sum of field `key` over the records of the series
FieldSum(name, key) ==
    SumSeq([i \in DOMAIN acc |-> IF acc[i].name = name THEN Get(acc[i].fields, key) ELSE 0])

\* the sum of all fields of the records of the series
AllFieldsSum(name) ==
    SumSeq([i \in DOMAIN acc |-> IF acc[i].name = name THEN SumMap(acc[i].fields) ELSE 0])

\* the field keys used by the records of the series
FieldKeys(series) == UNION {DOMAIN acc[i].fields : i \in {j \in DOMAIN acc : acc[j].name \in series}}

Present(c) == ~c.isNil /\ DOMAIN c.v # {}
CycleEnded == pc \in {"returned", "panicked"}
Authenticated == fault["auth"] = "none"

----------------------------------------------------------------------------
(* C1: at the end of a cycle that authenticated, an absent collection      *)
(* suppresses the families that take it as input, and every family whose   *)
(* inputs are all present and non-empty has been emitted.                  *)
C1_AbsenceSuppressesOnlyDependents ==
    (CycleEnded /\ Authenticated) =>
        /\ projectMap.isNil =>
              ~Emitted(IdentitySeries) /\ ~Emitted(ServerSeries) /\ ~Emitted(VolumeSeries)
        /\ hypervisorList.isNil => ~Emitted(HypervisorSeries)
        /\ flavorMap.isNil => ~Emitted(ServerSeries)
        /\ serverList.isNil => ~Emitted(ServerSeries)
        /\ volumeList.isNil => ~Emitted(VolumeSeries)
        /\ storagePoolList.isNil => ~Emitted(StoragePoolSeries)
        /\ Present(projectMap) => Emitted(IdentitySeries)
        /\ Present(hypervisorList) => Emitted(HypervisorSeries)
        /\ (Present(projectMap) /\ Present(flavorMap) /\ Present(serverList))
              => Emitted(ServerSeries)
        /\ (Present(projectMap) /\ Present(volumeList)) => Emitted(VolumeSeries)
        /\ Present(storagePoolList) => Emitted(StoragePoolSeries)

(* C2: when authentication fails, Gather returns the authentication error, *)
(* the accumulator was never called, no fetch was attempted and nothing    *)
(* was logged.                                                             *)
C2_AuthFailureEmitsNothing ==
    ~Authenticated =>
        /\ pc = "returned"
        /\ ret = "Unable to authenticate OpenStack user"
        /\ acc = <<>>
        /\ log = <<>>
        /\ \A k \in Kinds : fault[k] = "none"
        /\ projectMap.isNil /\ hypervisorList.isNil /\ flavorMap.isNil
        /\ serverList.isNil /\ volumeList.isNil /\ storagePoolList.isNil

C2_Witness == ~Authenticated /\ pc = "returned" /\ ret # NoError

Collection(k) ==
    CASE k = "projects"      -> projectMap
      [] k = "hypervisors"   -> hypervisorList
      [] k = "flavors"       -> flavorMap
      [] k = "servers"       -> serverList
      [] k = "volumes"       -> volumeList
      [] k = "storage pools" -> storagePoolList

Dependents(k) ==
    CASE k = "projects"      -> IdentitySeries \cup ServerSeries \cup VolumeSeries
      [] k = "hypervisors"   -> HypervisorSeries
      [] k = "flavors"       -> ServerSeries
      [] k = "servers"       -> ServerSeries
      [] k = "volumes"       -> VolumeSeries
      [] k = "storage pools" -> StoragePoolSeries

FetchErrors ==
    {"unable to create V3 identity client", "unable to create V2 compute client",
     "unable to create V2 volume client"} \cup
    {"unable to list " \o k : k \in Kinds} \cup {"unable to extract " \o k : k \in Kinds}

(* C3: for each fetcher and each failing step, the collection is absent, a *)
(* warning for it was logged, and no family that depends on it is emitted. *)
C3_FetchFailureYieldsAbsent ==
    \A k \in Kinds :
        fault[k] # "none" =>
            /\ Collection(k).isNil
            /\ \E i \in DOMAIN log, e \in FetchErrors : log[i] = Warning(k, e)
            /\ ~Emitted(Dependents(k))

(* C8: no server list makes gatherServerStatistics panic; the aggregators  *)
(* after it run and Gather returns.                                        *)
C8_ServerAggregationNeverPanics ==
    /\ pc # "panicked"
    /\ ret \in {"running", NoError, "Unable to authenticate OpenStack user"}

(* C10: the HTTP client the fetches use verifies the server's certificate. *)
C10_FetchClientVerifiesCertificate ==
    pc \in {"getProjectMap", "getHypervisorList", "getFlavorMap", "getServerList",
            "getVolumeList", "getStoragePools"}
        => ~provider.isNil /\ ~provider.v.HTTPClient.InsecureSkipVerify

----------------------------------------------------------------------------
(* The aggregators *)

HypervisorFieldNames == {"memory_mb", "memory_mb_used", "running_vms", "vcpus", "vcpus_used"}

\* gatherHypervisorStatistics has returned in this run
HypervisorsDone ==
    pc \in {"gatherServerStatistics", "gatherVolumeStatistics",
            "gatherStoragePoolStatistics", "returned", "panicked"}

ServersDone == pc \in {"gatherVolumeStatistics", "gatherStoragePoolStatistics", "returned"}

\* the statuses that differ from a lowercase status only in letter case
CaseVariants(status) ==
    CASE status = "active" -> {"ACTIVE", "Active", "active"}
      [] status = "error"  -> {"ERROR", "error"}
      [] OTHER             -> {}

VolumesDone == pc \in {"gatherStoragePoolStatistics", "returned"}

(* C6: after gatherVolumeStatistics with a non-nil project map, the        *)
(* "default" field of volume_count_total is the number of volumes whose    *)
(* type is empty or "default", the "default" field of volume_size_total is *)
(* the sum of their sizes, and no record has the empty string as a key.    *)
C6_EmptyVolumeTypeIsDefault ==
    (VolumesDone /\ ~projectMap.isNil /\ ~volumeList.isNil) =>
        LET list == volumeList.v
            defaults == {j \in DOMAIN list : list[j].VolumeType \in {"", "default"}}
        IN  /\ FieldSum("openstack_volume_count_total", "default") = Cardinality(defaults)
            /\ FieldSum("openstack_volume_size_total", "default")
                 = SumSeq([j \in DOMAIN list |-> IF j \in defaults THEN list[j].Size ELSE 0])
            /\ Cardinality(Named("openstack_volume_count_total")) <= 1
            /\ Cardinality(Named("openstack_volume_size_total")) <= 1
            /\ \A i \in DOMAIN acc : "" \notin DOMAIN acc[i].fields

C6_Witness ==
    /\ VolumesDone /\ ~projectMap.isNil /\ ~volumeList.isNil
    /\ \E i, j \in DOMAIN volumeList.v :
          volumeList.v[i].VolumeType = "" /\ volumeList.v[j].VolumeType = "default"
    /\ FieldSum("openstack_volume_count_total", "default") >= 2

(* C7: when the server list, the project map or the flavor map is nil, no  *)
(* server_state, server_state_total, server_stats or server_stats_total    *)
(* record is emitted.                                                      *)
C7_NoServerRecordsWithoutInputs ==
    (projectMap.isNil \/ flavorMap.isNil \/ serverList.isNil) => ~Emitted(ServerSeries)

C7_Witness ==
    /\ pc = "gatherVolumeStatistics"
    /\ projectMap.isNil /\ Present(flavorMap) /\ Present(serverList)
    /\ \A j \in DOMAIN serverList.v : FlavorIdIsString(serverList.v[j])

(* C9: the records of the second run of the aggregators over the same      *)
(* collections are the records of the first run.                           *)
C9_SecondRunEmitsTheSame ==
    (run = 2 /\ CycleEnded) => BagOf(acc) = prevAcc

C9_Witness ==
    /\ run = 2 /\ pc = "returned"
    /\ Named("openstack_hypervisor_total") # {}
    /\ Named("openstack_server_state_total") # {}
    /\ Named("openstack_volume_count_total") # {}
    /\ Cardinality(Named("openstack_server_state")) >= 2


\* the server records of the accumulator, in call order
ServerRecords ==
    LET IsServerRecord(r) == r.name \in ServerSeries
    IN  SelectSeq(acc, IsServerRecord)

\* the project names the servers of the list resolve to
ResolvedProjects ==
    {Lookup(MapOf(projectMap), ListOf(serverList)[j].TenantID, ZeroProject).Name :
        j \in DOMAIN ListOf(serverList)}

\* the server records are the two untagged totals and then, per resolved
\* project name, one server_state record directly followed by one server_stats
\* record, both tagged with the name, no name twice
ServerRecordsInOrder ==
    LET recs == ServerRecords
        n == Cardinality(ResolvedProjects)
    IN  /\ Len(recs) = 2 + 2 * n
        /\ recs[1].name = "openstack_server_state_total" /\ recs[1].tags = EmptyMap
        /\ recs[2].name = "openstack_server_stats_total" /\ recs[2].tags = EmptyMap
        /\ \A k \in 1..n :
              /\ recs[2 * k + 1].name = "openstack_server_state"
              /\ recs[2 * k + 2].name = "openstack_server_stats"
              /\ recs[2 * k + 1].tags = recs[2 * k + 2].tags
              /\ \E project \in ResolvedProjects : recs[2 * k + 1].tags = [project |-> project]
        /\ \A k, l \in 1..n : k # l => recs[2 * k + 1].tags # recs[2 * l + 1].tags
        /\ \A i, j \in DOMAIN acc :
              (i < j /\ acc[i].name \in ServerSeries /\ acc[j].name \in ServerSeries)
                 => \A m \in i..j : acc[m].name \in ServerSeries

\* gatherServerStatistics was called in this run on a non-empty list with non-nil maps
ServersCalledOnNonEmpty ==
    /\ ~projectMap.isNil /\ ~flavorMap.isNil /\ ~serverList.isNil
    /\ Len(ListOf(serverList)) # 0

(* C11: for every non-empty server list with non-nil project and flavor    *)
(* maps, once the call of gatherServerStatistics has ended the accumulator *)
(* holds, in this order, one untagged server_state_total record, one       *)
(* untagged server_stats_total record and, per project name resolved from  *)
(* the servers' tenants, one server_state record directly followed by one  *)
(* server_stats record, both tagged with that name, no name twice.         *)
C11_ServerRecordsEmittedInOrder ==
    ((ServersDone \/ pc = "panicked") /\ ServersCalledOnNonEmpty) => ServerRecordsInOrder

(* C11, for the calls of gatherServerStatistics that return: the records   *)
(* are emitted in that order.                                              *)
C11_InOrderWhenReturned ==
    (ServersDone /\ ServersCalledOnNonEmpty) => ServerRecordsInOrder

C11_ReturnedWithThreeProjects ==
    /\ ServersDone /\ ServersCalledOnNonEmpty
    /\ Cardinality(ResolvedProjects) = 3
    /\ "" \in ResolvedProjects

====
